---- MODULE Spec2Model ----
(***************************************************************************)
(* Snowdrift game on a graph (utils.py): init_graph builds a graph whose   *)
(* nodes carry a 'cooperate' flag and a 'color'; compute_update performs   *)
(* one best-response pass over the nodes; run_game drives compute_update   *)
(* for each cost r of r_list up to max_epoch epochs and records a rendered *)
(* snapshot and the judge_MNC verdict per r.                               *)
(*                                                                         *)
(* A cost r is the rational <<num, den>> (den > 0).  The rewards of        *)
(* compute_update are kept multiplied by den, so every comparison is exact *)
(* integer arithmetic; the costs used are dyadic, for which the floating   *)
(* point evaluation of the source is exact as well.                        *)
(***************************************************************************)
EXTENDS Integers, Sequences, FiniteSets, TLC

\* ------------------------------------------------------------- bounds
\* Node identifiers are 1..MaxNode.
MaxNode == 3
\* max_epoch is drawn from -1..MaxEpoch.
MaxEpoch == 2

Universe == 1..MaxNode

\* The costs r the sweeps are run with: 0, 1/2 and 3/2.
RSet == { <<0, 1>>, <<1, 2>>, <<3, 2>> }

\* The r_list arguments of run_game: the empty list, each cost alone, and
\* two lists of two costs.
RLists ==
    {<<>>} \cup { <<a>> : a \in RSet }
           \cup { << <<1, 2>>, <<3, 2>> >>, << <<0, 1>>, <<1, 2>> >> }

\* ------------------------------------------------------------- constants
unite_color == "red"
defect_color == "blue"

\* ------------------------------------------------------------- variables
VARIABLES
    in_nodes,      \* init_graph's argument nodes (a list)
    in_edges,      \* init_graph's argument edges (a list of pairs)
    graph,         \* the graph init_graph returned, run_game's argument
    r_list,        \* run_game's argument r_list
    max_epoch,     \* run_game's argument max_epoch
    ri,            \* position of the for loop of line 181 in r_list
    i,             \* next value of the loop variable of line 185
    final_graph,   \* run_game's local final_graph
    stable,        \* run_game's local stable
    final_image,   \* run_game's local final_image: <<>> unbound, <<v>> bound
    is_mnc,        \* run_game's local is_mnc: <<>> unbound, <<v>> bound
    final_images,  \* run_game's list final_images
    mncs,          \* run_game's list mncs
    out,           \* what run_game printed so far
    flags,         \* history: the stable flags the Update Steps of the
                   \* current r returned, in order
    last_in,       \* history: the graph passed to the latest compute_update
    pc             \* control position

vars == << in_nodes, in_edges, graph, r_list, max_epoch, ri, i, final_graph,
           stable, final_image, is_mnc, final_images, mncs, out, flags,
           last_in, pc >>

\* ------------------------------------------------------------- graphs
\* A networkx Graph: the node list in insertion order, the undirected
\* edges, and the attribute dictionary of every node.
NoGraph == [nodes |-> <<>>, edges |-> {}, attr |-> <<>>]

Range(s) == { s[k] : k \in 1..Len(s) }

\* G.add_nodes_from / G.add_edges_from: an edge's endpoints that are not
\* yet nodes are added, u first, in the order the edges are given.
RECURSIVE add_edges_from(_, _)
add_edges_from(nodes, edges) ==
    IF edges = <<>> THEN nodes
    ELSE LET u == Head(edges)[1]
             v == Head(edges)[2]
             n1 == IF u \in Range(nodes) THEN nodes ELSE Append(nodes, u)
             n2 == IF v \in Range(n1) THEN n1 ELSE Append(n1, v)
         IN  add_edges_from(n2, Tail(edges))

\* The color a node with the given strategy gets (lines 42 and 151).
color_of(cooperate) == IF cooperate THEN unite_color ELSE defect_color

\* init_graph with the loop of line 40 over the argument nodes, not over
\* the nodes of G: a node only an edge names gets no attributes.
init_graph_listed(nodes, edges, choice) ==
    [nodes |-> add_edges_from(nodes, edges),
     edges |-> { {e[1], e[2]} : e \in Range(edges) },
     attr  |-> [n \in Range(nodes) |->
                  [cooperate |-> choice[n], color |-> color_of(choice[n])]]]

\* init_graph with the outcomes of random.choice given by choice.
init_graph(nodes, edges, choice) ==
    LET order == add_edges_from(nodes, edges)
    IN  [nodes |-> order,
         edges |-> { {e[1], e[2]} : e \in Range(edges) },
         attr  |-> [n \in Range(order) |->
                      [cooperate |-> choice[n], color |-> color_of(choice[n])]]]

neighbors(G, node) == { m \in Range(G.nodes) : {node, m} \in G.edges }

\* ------------------------------------------------------------- update
\* The rewards of lines 143-144, multiplied by the denominator of r.
reward_cooperate(cooperators, defectors, r) ==
    r[2] * cooperators + (r[2] - r[1]) * defectors

reward_defect(cooperators, defectors, r) ==
    (r[2] + r[1]) * cooperators + 0 * defectors

\* Line 147 with >= for >: a tie resolves to Cooperate.
new_state_ge(cooperators, defectors, r) ==
    reward_cooperate(cooperators, defectors, r)
        >= reward_defect(cooperators, defectors, r)

new_state(cooperators, defectors, r) ==
    reward_cooperate(cooperators, defectors, r)
        > reward_defect(cooperators, defectors, r)

\* The neighbour counts of lines 133-140, read from the graph g.
cooperators_of(g, node) ==
    Cardinality({ m \in neighbors(g, node) : g.attr[m].cooperate })

defectors_of(g, node) ==
    Cardinality({ m \in neighbors(g, node) : ~g.attr[m].cooperate })

\* Lines 148-150 without line 151: the color is left as it was.
set_state_nocolor(g, node, state) ==
    [g EXCEPT !.attr[node].cooperate = state]

\* Lines 148-151: the attributes of node are rewritten when its state
\* changes.
set_state(g, node, state) ==
    [g EXCEPT !.attr[node] = [cooperate |-> state, color |-> color_of(state)]]

\* Line 149 as "stable = not changed": the flag tells of the last node only.
stable_after_last(st, changed) == ~changed

\* Line 149 left out: the flag is never cleared.
stable_after_unset(st, changed) == st

\* Line 149: the stable flag after a node whose state changed or not.
stable_after(st, changed) == IF changed THEN FALSE ELSE st

\* One iteration of the loop of line 129 on the working copy g.
update_node(g, st, node, r) ==
    LET ns == new_state(cooperators_of(g, node), defectors_of(g, node), r)
        changed == g.attr[node].cooperate # ns
    IN  << IF changed THEN set_state(g, node, ns) ELSE g,
           stable_after(st, changed) >>

\* The loop of line 129 from the k-th node of order on.  The iteration's
\* outcome res is bound as a value (the one element of a set) before the
\* rest of the loop runs on it.
RECURSIVE update_from(_, _, _, _, _)
update_from(k, order, g, st, r) ==
    IF k > Len(order) THEN << g, st >>
    ELSE CHOOSE x \in { update_from(k + 1, order, res[1], res[2], r) :
                           res \in { update_node(g, st, order[k], r) } } : TRUE

\* compute_update with every node of order evaluated on the argument G,
\* as if lines 131-140 read G and not the working copy.
compute_update_sync(G, order, r) ==
    LET ns == [n \in Range(G.nodes) |->
                 IF n \in Range(order)
                 THEN new_state(cooperators_of(G, n), defectors_of(G, n), r)
                 ELSE G.attr[n].cooperate]
    IN  << [G EXCEPT !.attr = [n \in Range(G.nodes) |->
                [cooperate |-> ns[n], color |-> color_of(ns[n])]]],
           \A n \in Range(G.nodes) : ns[n] = G.attr[n].cooperate >>

\* compute_update visiting the nodes in the given order.
compute_update_in(G, order, r) == update_from(1, order, G, TRUE, r)

\* compute_update(G, r): << graph, stable >>.
compute_update(G, r) == compute_update_in(G, G.nodes, r)

\* Line 128 as "graph = G": the loop writes into the argument itself.
arg_after_alias(G, r) == compute_update(G, r)[1]

\* The graph object passed as G once compute_update(G, r) has returned:
\* line 128 makes graph a copy with attribute dictionaries of its own, so
\* the writes of lines 150-151 do not reach G.
arg_after(G, r) == G

\* ------------------------------------------------------------- results
\* graph.edges() (line 219): every edge once, as (u, v) with u the endpoint
\* that comes first in the node list, grouped by u in node order.
RECURSIVE edges_of(_, _)
edges_of(g, k) ==
    IF k > Len(g.nodes) THEN <<>>
    ELSE LET later == SelectSeq(SubSeq(g.nodes, k + 1, Len(g.nodes)),
                                LAMBDA m : {g.nodes[k], m} \in g.edges)
         IN  [j \in 1..Len(later) |-> << g.nodes[k], later[j] >>]
                 \o edges_of(g, k + 1)

\* Line 220 with "or" for "and".
uncovered_either(g, u, v) ==
    g.attr[u].cooperate = FALSE \/ g.attr[v].cooperate = FALSE

\* Line 220: both endpoints of the edge defect.
uncovered(g, u, v) ==
    g.attr[u].cooperate = FALSE /\ g.attr[v].cooperate = FALSE

\* The loop of lines 219-222 on the edges es left, is_MNC still True.
RECURSIVE judge_loop(_, _)
judge_loop(g, es) ==
    IF es = <<>> THEN TRUE
    ELSE IF uncovered(g, Head(es)[1], Head(es)[2]) THEN FALSE
         ELSE judge_loop(g, Tail(es))

\* judge_MNC(graph): lines 218-224.
judge_MNC(g) == judge_loop(g, edges_of(g, 1))

\* get_graph: the image drawn from the nodes' colors (line 91).
get_graph(G) == [n \in Range(G.nodes) |-> G.attr[n].color]

\* ------------------------------------------------------------- inputs
\* The node lists init_graph is called with: no node, node 1 alone, and
\* all of 1..MaxNode.
NodeLists == { [j \in 1..k |-> j] : k \in {0, 1, MaxNode} }

PairSet == { p \in Universe \X Universe : p[1] < p[2] }

PairLess(p, q) == p[1] < q[1] \/ (p[1] = q[1] /\ p[2] < q[2])

RECURSIVE sorted(_)
sorted(S) ==
    IF S = {} THEN <<>>
    ELSE LET m == CHOOSE p \in S : \A q \in S : p = q \/ PairLess(p, q)
         IN  <<m>> \o sorted(S \ {m})

\* The edge lists init_graph is called with: pairs (u, v), u < v, over the
\* node identifiers, listed in ascending order as default_edges mostly is.
EdgeLists == { sorted(S) : S \in SUBSET PairSet }

\* ------------------------------------------------------------- Init
Init ==
    /\ in_nodes \in NodeLists
    /\ in_edges \in EdgeLists
    /\ graph = NoGraph
    /\ r_list = <<>>
    /\ max_epoch = 0
    /\ ri = 1
    /\ i = 0
    /\ final_graph = NoGraph
    /\ stable = TRUE
    /\ final_image = <<>>
    /\ is_mnc = <<>>
    /\ final_images = <<>>
    /\ mncs = <<>>
    /\ out = <<>>
    /\ flags = <<>>
    /\ last_in = NoGraph
    /\ pc = "init_graph"

\* ------------------------------------------------------------- actions
\* init_graph(nodes, edges): every node draws its strategy at random.
InitGraph ==
    /\ pc = "init_graph"
    /\ \E choice \in [Range(add_edges_from(in_nodes, in_edges)) -> BOOLEAN] :
          graph' = init_graph(in_nodes, in_edges, choice)
    /\ pc' = "ready"
    /\ UNCHANGED << in_nodes, in_edges, r_list, max_epoch, ri, i, final_graph,
                    stable, final_image, is_mnc, final_images, mncs, out,
                    flags, last_in >>

\* run_game(graph, pos, r_list, max_epoch) is called: lines 179-180.
RunGame ==
    /\ pc = "ready"
    /\ \E rl \in RLists, me \in -1..MaxEpoch :
          /\ r_list' = rl
          /\ max_epoch' = me
    /\ final_images' = <<>>
    /\ mncs' = <<>>
    /\ ri' = 1
    /\ pc' = "for_r"
    /\ UNCHANGED << in_nodes, in_edges, graph, i, final_graph, stable,
                    final_image, is_mnc, out, flags, last_in >>

\* Lines 181-184: the next r of r_list, and the first Update Step, on the
\* graph run_game was called with.
FirstUpdate ==
    /\ pc = "for_r"
    /\ ri <= Len(r_list)
    /\ LET res == compute_update(graph, r_list[ri])
       IN  /\ final_graph' = res[1]
           /\ stable' = res[2]
           /\ flags' = << res[2] >>
    /\ graph' = arg_after(graph, r_list[ri])
    /\ last_in' = graph
    /\ out' = Append(out, << "running", r_list[ri] >>)
    /\ i' = 0
    /\ pc' = "loop"
    /\ UNCHANGED << in_nodes, in_edges, r_list, max_epoch, ri,
                    final_image, is_mnc, final_images, mncs >>

\* Line 185 as range(max_epoch + 1).
in_range_inclusive(k, n) == k <= n

\* Line 185: range(max_epoch) has a next value.
in_range(k, n) == k < n

\* Lines 185-191: an iteration that finds stable set records the result and
\* breaks.
LoopBreak ==
    /\ pc = "loop"
    /\ in_range(i, max_epoch)
    /\ stable
    /\ out' = Append(out, << "stable", i >>)
    /\ final_image' = << get_graph(final_graph) >>
    /\ is_mnc' = << judge_MNC(final_graph) >>
    /\ i' = i + 1
    /\ pc' = "after"
    /\ UNCHANGED << in_nodes, in_edges, graph, r_list, max_epoch, ri,
                    final_graph, stable, final_images, mncs, flags, last_in >>

\* Lines 185-192: an iteration that finds stable unset performs one more
\* Update Step.
LoopUpdate ==
    /\ pc = "loop"
    /\ in_range(i, max_epoch)
    /\ ~stable
    /\ LET res == compute_update(final_graph, r_list[ri])
       IN  /\ final_graph' = res[1]
           /\ stable' = res[2]
           /\ flags' = Append(flags, res[2])
    /\ last_in' = final_graph
    /\ i' = i + 1
    /\ pc' = "loop"
    /\ UNCHANGED << in_nodes, in_edges, graph, r_list, max_epoch, ri,
                    final_image, is_mnc, final_images, mncs, out >>

\* Line 185: range(max_epoch) is exhausted.
LoopExit ==
    /\ pc = "loop"
    /\ ~in_range(i, max_epoch)
    /\ pc' = "after"
    /\ UNCHANGED << in_nodes, in_edges, graph, r_list, max_epoch, ri, i,
                    final_graph, stable, final_image, is_mnc, final_images,
                    mncs, out, flags, last_in >>

\* Lines 194-197 judging and drawing graph, the argument, for final_graph.
AfterLoop_InitialGraph ==
    /\ pc = "after"
    /\ IF ~stable
       THEN /\ out' = Append(out, << "not stable" >>)
            /\ is_mnc' = << judge_MNC(graph) >>
            /\ final_image' = << get_graph(graph) >>
       ELSE UNCHANGED << out, is_mnc, final_image >>
    /\ pc' = "append"
    /\ UNCHANGED << in_nodes, in_edges, graph, r_list, max_epoch, ri, i,
                    final_graph, stable, final_images, mncs, flags, last_in >>

\* Lines 194-197.
AfterLoop ==
    /\ pc = "after"
    /\ IF ~stable
       THEN /\ out' = Append(out, << "not stable" >>)
            /\ is_mnc' = << judge_MNC(final_graph) >>
            /\ final_image' = << get_graph(final_graph) >>
       ELSE UNCHANGED << out, is_mnc, final_image >>
    /\ pc' = "append"
    /\ UNCHANGED << in_nodes, in_edges, graph, r_list, max_epoch, ri, i,
                    final_graph, stable, final_images, mncs, flags, last_in >>

\* Lines 199-200 with both locals bound.
AppendResult ==
    /\ pc = "append"
    /\ final_image # <<>>
    /\ is_mnc # <<>>
    /\ final_images' = Append(final_images, final_image[1])
    /\ mncs' = Append(mncs, is_mnc[1])
    /\ ri' = ri + 1
    /\ pc' = "for_r"
    /\ UNCHANGED << in_nodes, in_edges, graph, r_list, max_epoch, i,
                    final_graph, stable, final_image, is_mnc, out, flags,
                    last_in >>

\* Line 199 with final_image unbound: UnboundLocalError leaves run_game.
AppendUnbound ==
    /\ pc = "append"
    /\ final_image = <<>>
    /\ pc' = "error"
    /\ UNCHANGED << in_nodes, in_edges, graph, r_list, max_epoch, ri, i,
                    final_graph, stable, final_image, is_mnc, final_images,
                    mncs, out, flags, last_in >>

\* Line 202: r_list is exhausted and run_game returns.
Return ==
    /\ pc = "for_r"
    /\ ri > Len(r_list)
    /\ pc' = "done"
    /\ UNCHANGED << in_nodes, in_edges, graph, r_list, max_epoch, ri, i,
                    final_graph, stable, final_image, is_mnc, final_images,
                    mncs, out, flags, last_in >>

\* The steps run_game takes once called.
RunGameStep ==
    \/ FirstUpdate
    \/ LoopBreak
    \/ LoopUpdate
    \/ LoopExit
    \/ AfterLoop
    \/ AppendResult
    \/ AppendUnbound
    \/ Return

Next ==
    \/ InitGraph
    \/ RunGame
    \/ RunGameStep

Spec == Init /\ [][Next]_vars

\* ------------------------------------------------------------- views
\* At least one Update Step of the current run_game call has returned:
\* last_in is the graph it was given, final_graph and stable what it
\* returned.
Stepped ==
    \/ pc \in {"loop", "after", "append", "error"}
    \/ pc \in {"for_r", "done"} /\ ri > 1

\* The result of the latest r has just been appended at position ri - 1.
Recorded == pc \in {"for_r", "done"} /\ ri > 1

\* The run of the latest r is past line 197.
RunOver == pc \in {"append", "error"} \/ Recorded

\* The cost of the latest Update Step.
cur_r == IF pc \in {"for_r", "done"} THEN r_list[ri - 1] ELSE r_list[ri]

\* What was printed for the latest r, after its "running game" line.
LastRunning ==
    CHOOSE k \in 1..Len(out) :
        /\ out[k][1] = "running"
        /\ \A j \in (k + 1)..Len(out) : out[j][1] # "running"

Signals == { out[j][1] : j \in (LastRunning + 1)..Len(out) }

Max(a, b) == IF a >= b THEN a ELSE b

\* The orders in which the nodes of a node list can be visited.
Orders(s) == { t \in [1..Len(s) -> Range(s)] : Range(t) = Range(s) }

\* The position of node n in the node list s.
IndexOf(s, n) == CHOOSE k \in 1..Len(s) : s[k] = n

\* The working copy of compute_update(G, r) when node n is visited.
graph_at(G, n, r) ==
    compute_update_in(G, SubSeq(G.nodes, 1, IndexOf(G.nodes, n) - 1), r)[1]

\* run_game(G, pos, [r], me): << >> when it raises UnboundLocalError at
\* line 199, else << <<image, verdict>> >>, the entry of its two lists.
RECURSIVE epoch_loop(_, _, _, _, _)
epoch_loop(k, me, g, st, r) ==
    IF in_range(k, me)
    THEN IF st
         THEN [g |-> g, st |-> st,
               res |-> << << get_graph(g), judge_MNC(g) >> >>]
         ELSE LET u == compute_update(g, r)
              IN  epoch_loop(k + 1, me, u[1], u[2], r)
    ELSE [g |-> g, st |-> st, res |-> << >>]

solitary(G, r, me) ==
    LET first == compute_update(G, r)
        l == epoch_loop(0, me, first[1], first[2], r)
    IN  IF ~l.st THEN << << get_graph(l.g), judge_MNC(l.g) >> >> ELSE l.res

\* ------------------------------------------------------------- claims

\* C1: every node's strategy in the Configuration an Update Step returns
\* is the best response to the neighbour counts of the step's INPUT
\* Configuration, and the step returns the same Configuration and flag for
\* every node visitation order.
C1_Synchronous ==
    Stepped =>
        /\ \A n \in Range(last_in.nodes) :
              final_graph.attr[n].cooperate =
                  new_state(cooperators_of(last_in, n),
                            defectors_of(last_in, n), cur_r)
        /\ \A ord \in Orders(last_in.nodes) :
              compute_update_in(last_in, ord, cur_r) = << final_graph, stable >>

\* C2: with max_epoch >= 0, once the run of an r is over and one of its
\* Update Steps reported stable, the run did not fail, the entry recorded
\* for r is the snapshot and verdict of the Configuration that step
\* returned, and the "stable" signal was given for r.
C2_ResultOnConvergence ==
    ( /\ max_epoch >= 0
      /\ pc = "error" \/ Recorded
      /\ \E k \in 1..Len(flags) : flags[k] )
    =>  /\ Recorded
        /\ final_images[ri - 1] = get_graph(final_graph)
        /\ mncs[ri - 1] = judge_MNC(final_graph)
        /\ "stable" \in Signals

\* C3: every entry recorded by a sweep equals the entry the solitary sweep
\* over that one cost records from the same initial Configuration (stated
\* for the budgets max_epoch >= 0).
C3_SweepIndependence ==
    max_epoch >= 0 =>
        \A k \in 1..Len(final_images) :
            solitary(graph, r_list[k], max_epoch)
                = << << final_images[k], mncs[k] >> >>

\* C4: run_game never fails, and when it returns both result lists have
\* exactly one entry per element of r_list (stated for the budgets
\* max_epoch >= 0).
C4_OneResultPerCost ==
    max_epoch >= 0 =>
        /\ pc # "error"
        /\ pc = "done" =>
              /\ Len(final_images) = Len(r_list)
              /\ Len(mncs) = Len(r_list)

\* The part of C5 both the claim and its amendment state: a run that is
\* past its first step has performed one, and no Update Step follows one
\* that reported stable.
C5_Common ==
    /\ Stepped => Len(flags) >= 1
    /\ \A k \in 1..(Len(flags) - 1) : ~flags[k]

\* C5 as claimed: at least one and at most max_epoch + 1 Update Steps per
\* r, none after a stable one.
C5_AtMostBudgetPlusOne ==
    /\ C5_Common
    /\ pc \notin {"init_graph", "ready"} => Len(flags) <= max_epoch + 1

\* The position of run_game in its run: it grows with every step run_game
\* takes and never exceeds ProgressBound.
Running == pc \in {"for_r", "loop", "after", "append"}

PerCost == Max(max_epoch, 0) + 4

Progress ==
    CASE pc = "for_r"  -> (ri - 1) * PerCost
      [] pc = "loop"   -> (ri - 1) * PerCost + 1 + i
      [] pc = "after"  -> (ri - 1) * PerCost + Max(max_epoch, 0) + 2
      [] pc = "append" -> (ri - 1) * PerCost + Max(max_epoch, 0) + 3
      [] pc = "error"  -> ri * PerCost
      [] pc = "done"   -> Len(r_list) * PerCost + 1
      [] OTHER         -> 0

ProgressBound == Len(r_list) * PerCost + 1

\* C5 as amended: at least one and at most max(max_epoch, 0) + 1 Update
\* Steps per r, none after a stable one; and run_game, once called, ends
\* (it returns, or leaves by the exception of line 199): every step it
\* takes raises Progress, and Progress is bounded.
C5_BoundedIteration ==
    /\ [](C5_Common /\ Len(flags) <= Max(max_epoch, 0) + 1)
    /\ [](Progress <= ProgressBound)
    /\ [][Running => Progress' > Progress]_vars

\* The budget of a run of two or more epochs is used up without a fixed
\* point.
C5_Witness ==
    /\ pc = "after"
    /\ ~stable
    /\ max_epoch >= 1
    /\ Len(flags) = max_epoch + 1

\* C6: once the run of an r is past line 197, "not stable" was signalled
\* for it iff none of its Update Steps reported stable; then the locals and
\* the entry recorded for r are the verdict and snapshot of the last
\* Configuration produced, and "stable" was not signalled for r.
C6_NonConvergenceReported ==
    RunOver =>
        /\ "not stable" \in Signals <=> \A k \in 1..Len(flags) : ~flags[k]
        /\ "not stable" \in Signals =>
              /\ "stable" \notin Signals
              /\ pc # "error"
              /\ is_mnc = << judge_MNC(final_graph) >>
              /\ final_image = << get_graph(final_graph) >>
              /\ Recorded =>
                    /\ final_images[ri - 1] = get_graph(final_graph)
                    /\ mncs[ri - 1] = judge_MNC(final_graph)

\* A run of several Update Steps, none stable, has been recorded.
C6_Witness ==
    /\ Recorded
    /\ "not stable" \in Signals
    /\ Len(flags) >= 2
    /\ final_graph # graph

\* C7: with max_epoch <= 0 run_game never fails, performs exactly one
\* Update Step per r, signals "not stable" when that step is unstable, and
\* returns one entry per r.
C7_NoErrorWithoutBudget ==
    max_epoch <= 0 =>
        /\ pc # "error"
        /\ RunOver =>
              /\ Len(flags) = 1
              /\ ~flags[1] => "not stable" \in Signals
        /\ pc = "done" => Len(final_images) = Len(r_list)

\* C8: an Update Step returns stable = FALSE iff some node's strategy in
\* the returned Configuration differs from its strategy in the input.
C8_StableFlag ==
    Stepped =>
        ( stable = FALSE <=>
            \E n \in Range(last_in.nodes) :
                final_graph.attr[n].cooperate # last_in.attr[n].cooperate )

\* An Update Step changed two nodes or more, one of them not the last
\* visited.
C8_Witness ==
    /\ Stepped
    /\ ~stable
    /\ Len(last_in.nodes) >= 2
    /\ final_graph.attr[last_in.nodes[1]].cooperate
          # last_in.attr[last_in.nodes[1]].cooperate
    /\ final_graph.attr[last_in.nodes[Len(last_in.nodes)]].cooperate
          = last_in.attr[last_in.nodes[Len(last_in.nodes)]].cooperate

\* C9: when an Update Step returned (C', TRUE), the Update Step applied to
\* C' returns C' and TRUE again.
C9_FixedPointIdempotence ==
    (Stepped /\ stable) =>
        compute_update(final_graph, cur_r) = << final_graph, TRUE >>

\* A step reported stable on a graph with an edge and a cooperator.
C9_Witness ==
    /\ Stepped
    /\ stable
    /\ final_graph.edges # {}
    /\ \E n \in Range(final_graph.nodes) : final_graph.attr[n].cooperate

\* C10: a node whose two rewards are equal for the counts it is evaluated
\* with is Defect in the returned Configuration; a node without neighbours
\* is Defect; on a single-node graph stable is reported iff the node was
\* Defect already.
C10_StrictTieBreak ==
    Stepped =>
        /\ \A n \in Range(last_in.nodes) :
              LET g == graph_at(last_in, n, cur_r)
                  c == cooperators_of(g, n)
                  d == defectors_of(g, n)
              IN  /\ reward_cooperate(c, d, cur_r) = reward_defect(c, d, cur_r)
                        => ~final_graph.attr[n].cooperate
                  /\ neighbors(last_in, n) = {}
                        => ~final_graph.attr[n].cooperate
        /\ Len(last_in.nodes) = 1 =>
              (stable <=> ~last_in.attr[last_in.nodes[1]].cooperate)

\* A cooperating node with as many cooperating as defecting neighbours at
\* its visit (a tie that is not 0 = 0) was turned to Defect.
C10_Witness ==
    /\ Stepped
    /\ \E n \in Range(last_in.nodes) :
          LET g == graph_at(last_in, n, cur_r)
              c == cooperators_of(g, n)
              d == defectors_of(g, n)
          IN  /\ c >= 1
              /\ reward_cooperate(c, d, cur_r) = reward_defect(c, d, cur_r)
              /\ last_in.attr[n].cooperate
              /\ ~final_graph.attr[n].cooperate

\* The locals final_image and is_mnc were bound from final_graph, by
\* lines 189-190 or 196-197, for the r that is running.
JustJudged == pc \in {"after", "append"} /\ Signals # {}

\* Every edge of g has a cooperating endpoint.
Covers(g) == \A e \in g.edges : \E n \in e : g.attr[n].cooperate

C12_InputNotMutated ==
    /\ [][pc # "init_graph" => graph' = graph]_vars
    /\ []((Stepped /\ Len(flags) = 1 /\ pc = "loop") => last_in = graph)

\* The second r of a sweep has made its first step after the run of the
\* first r ended in a Configuration other than the initial one.
C12_Witness ==
    /\ pc = "loop"
    /\ ri = 2
    /\ Len(flags) = 1
    /\ Len(final_images) = 1
    /\ final_images[1] # get_graph(graph)

\* g has the nodes and edges init_graph built from its arguments, and
\* every node has one strategy, Cooperate or Defect.
WellFormed(g) ==
    /\ g.nodes = add_edges_from(in_nodes, in_edges)
    /\ g.edges = { {e[1], e[2]} : e \in Range(in_edges) }
    /\ DOMAIN g.attr = Range(g.nodes)
    /\ \A n \in Range(g.nodes) : g.attr[n].cooperate \in BOOLEAN

\* C13: the graph init_graph returns, every Configuration an Update Step
\* of run_game returns, and the Configuration one more Update Step with
\* any cost returns from it, have the nodes and edges of the initial graph
\* and one strategy in {Cooperate, Defect} per node.
C13_WellFormed ==
    /\ pc # "init_graph" => WellFormed(graph)
    /\ Stepped =>
          /\ WellFormed(final_graph)
          /\ \A r \in RSet : WellFormed(compute_update(final_graph, r)[1])

\* A Configuration two Update Steps away from an initial graph that has a
\* node only an edge names, the strategies changed on the way.
C13_Witness ==
    /\ Stepped
    /\ Len(flags) >= 2
    /\ Len(final_graph.nodes) > Len(in_nodes)
    /\ final_graph.attr # graph.attr

\* C14: init_graph returns no graph when an edge names a node that is
\* not in the node list (it ends in an error instead), so no graph with
\* such an edge exists after construction or reaches an Update Step.
C14_MalformedTopologyFailsFast ==
    pc # "init_graph" =>
        \A e \in Range(in_edges) :
            e[1] \in Range(in_nodes) /\ e[2] \in Range(in_nodes)

\* C15 (two applications of compute_update to the same Configuration and
\* r agree) compares an operator with itself and is not stated here.

\* Costs beyond those the sweeps are run with: -1/2, 1/4, 3/4, 1 and 2.
RWide == RSet \cup { <<-1, 2>>, <<1, 4>>, <<3, 4>>, <<1, 1>>, <<2, 1>> }

\* One of the first n Update Steps iterated from G with cost r returns
\* stable = True.
RECURSIVE stable_within(_, _, _)
stable_within(G, r, n) ==
    /\ n > 0
    /\ \E u \in { compute_update(G, r) } :
          u[2] \/ stable_within(u[1], r, n - 1)

\* C16: from every initial graph and for every cost, iterating
\* compute_update reaches a step that returns stable = True (within 2^n
\* steps for n nodes, or it would repeat a Configuration for ever); and
\* run_game ends the run of an r in its stable branch exactly when
\* max_epoch is at least the number of steps that takes.
C16_EventualConvergence ==
    /\ pc = "ready" =>
          \A r \in RWide : stable_within(graph, r, 2 ^ Len(graph.nodes))
    /\ RunOver =>
          ("stable" \in Signals <=> stable_within(graph, cur_r, max_epoch))

\* A run reached its fixed point with its second Update Step and ended in
\* the stable branch.
C16_Witness ==
    /\ pc = "after"
    /\ "stable" \in Signals
    /\ flags = << FALSE, TRUE >>
    /\ final_graph.edges # {}

\* Every cooperating node of g has a defecting neighbour.
CooperatorsNeeded(g) ==
    \A n \in Range(g.nodes) :
        g.attr[n].cooperate =>
            \E m \in neighbors(g, n) : ~g.attr[m].cooperate

\* The cooperators of g cover every edge, and no longer do once any one
\* of them defects.
MinimalCover(g) ==
    /\ Covers(g)
    /\ \A n \in Range(g.nodes) :
          g.attr[n].cooperate => ~Covers(set_state(g, n, FALSE))

\* C17: for the costs r >= 0, in a Configuration for which an Update Step
\* reported stable = True every cooperating node has a defecting
\* neighbour, and if judge_MNC returns True on it the cooperators are a
\* minimal vertex cover; the same for every initial graph that one Update
\* Step with a cost r >= 0 reports stable.
C17_StableCoversMinimal ==
    /\ (Stepped /\ stable) =>
          /\ CooperatorsNeeded(final_graph)
          /\ judge_MNC(final_graph) => MinimalCover(final_graph)
    /\ pc = "ready" =>
          \A r \in { q \in RWide : q[1] >= 0 } :
              compute_update(graph, r)[2] =>
                  /\ CooperatorsNeeded(graph)
                  /\ judge_MNC(graph) => MinimalCover(graph)

\* run_game ended the run of an r in its stable branch on a cover with
\* two cooperators.
C17_Witness ==
    /\ pc = "after"
    /\ stable
    /\ "stable" \in Signals
    /\ is_mnc = << TRUE >>
    /\ Cardinality({ n \in Range(final_graph.nodes) :
                       final_graph.attr[n].cooperate }) >= 2

\* The color of every node of g is red if it cooperates and blue if not.
ColorsTrack(g) ==
    \A n \in Range(g.nodes) :
        g.attr[n].color = (IF g.attr[n].cooperate THEN "red" ELSE "blue")

\* C18: in the graph init_graph returns and in every graph an Update Step
\* returns, a node's color is red iff it cooperates and blue otherwise,
\* and the snapshot run_game has just drawn shows, node by node, the
\* strategies of the Configuration it was drawn from.
C18_ColorTracksStrategy ==
    /\ pc # "init_graph" => ColorsTrack(graph)
    /\ Stepped => ColorsTrack(final_graph)
    /\ JustJudged =>
          final_image =
              << [n \in Range(final_graph.nodes) |->
                    IF final_graph.attr[n].cooperate THEN "red" ELSE "blue"] >>

\* A snapshot was drawn of a Configuration in which the Update Steps had
\* turned one node to Cooperate and another to Defect.
C18_Witness ==
    /\ JustJudged
    /\ \E n \in Range(graph.nodes) :
          graph.attr[n].cooperate /\ ~final_graph.attr[n].cooperate
    /\ \E n \in Range(graph.nodes) :
          ~graph.attr[n].cooperate /\ final_graph.attr[n].cooperate

====
